---------------------------- MODULE Spec2Model ----------------------------
(* A model of the sampling and versioned artifact-caching engine of         *)
(* lr_face (forensic face comparison): src/lr_face/data.py, models.py and   *)
(* versioning.py.  models.py is committed with unresolved merge markers;    *)
(* the model follows its HEAD side (Version, base_model, current_version).  *)
(*                                                                          *)
(* Part I   the artifact store: EmbeddingModel.embed and                    *)
(*          FaceImage.get_embedding, their in-process memo (the @cache      *)
(*          decorator), the embedding files and the weight files on disk,   *)
(*          run by NumProcs single-threaded Python processes that share     *)
(*          the disk.                                                       *)
(* Part II  the sampling engine: make_pairs, make_triplets, FaceTriplet     *)
(*          and split_pairs on lists of images.                             *)
(* Part III the value objects: Version (parsing, printing, ordering,        *)
(*          increment) and the equality and hash of FaceImage.              *)
(* Part IV  the datasets: Dataset.images behind the @cache decorator.       *)
EXTENDS Integers, Sequences, FiniteSets, TLC

VARIABLES
    \* ---- Part I: artifact store ----
    pc,           \* pc[p]: where process p is inside embed / get_embedding
    call,         \* call[p]: the arguments and locals of p's current call
    memo,         \* memo[p]: the lru cache of EmbeddingModel.embed in process p
    base,         \* base[p]: weights held by the base model cached in p (-1: not built)
    objs,         \* objs[p]: the EmbeddingModel objects constructed in p
    disk,         \* the embedding files: path -> [complete, val]
    weightFiles,  \* the weight files in the model directory: Version -> weights
    trained,      \* number of training runs so far (names the weights they produce)
    computed,     \* history: path -> number of predictions made for that path
    calls,        \* number of operations started so far
    \* ---- Part II: sampling ----
    images,       \* the list of images handed to the sampling functions
    lastOp,       \* the last sampling operation and its arguments
    outcome,      \* how it ended: "ok" or the exception it raised
    pairs,        \* the list make_pairs returned last (split_pairs' input)
    triplets,     \* the triplets the last operation constructed
    train_idx,    \* split_pairs: positions of `pairs` returned as train
    test_idx,     \* split_pairs: positions of `pairs` returned as test
    prev,         \* history: the split_pairs call that the last one repeated
    \* ---- Part III: value objects ----
    ver,          \* the last operation on Versions: arguments and result
    faces,        \* the last comparison of two FaceImages
    \* ---- Part IV: datasets ----
    datasets,     \* the Dataset instances constructed, in order
    dcache,       \* the cache of Dataset.images: entries [self, val]
    access,       \* the last access of d.images: instance, list, where from
    dfirst,       \* history: dfirst[d] holds the first list d.images gave
    dcomputed     \* history: dcomputed[d] counts the runs of d's images body

storeVars == <<pc, call, memo, base, objs, disk, weightFiles, trained, computed,
               calls>>
pairVars == <<images, lastOp, outcome, pairs, triplets, train_idx, test_idx, prev>>
valueVars == <<ver, faces>>
datasetVars == <<datasets, dcache, access, dfirst, dcomputed>>
vars == <<storeVars, pairVars, valueVars, datasetVars>>

----------------------------------------------------------------------------
(* Bounds of the model.                                                     *)

NumProcs == 2      \* Python processes sharing the disk
MaxModels == 2     \* EmbeddingModel objects constructed per process
MaxTrain == 1      \* training runs
MaxCalls == 6      \* operations started in a run (calls of the store and of the models)
MaxImages == 4     \* length of the enumerated image lists
MaxN == 2          \* largest n handed to make_pairs
MaxComponent == 2  \* the small values of major, minor and micro
LargeComponent == 10   \* one more value of a component, of two digits
MaxStringLen == 5  \* length of the strings handed to Version.from_string
MaxDatasets == 2   \* Dataset instances constructed
MaxFiles == 2      \* weight files in a model directory

Procs == 1..NumProcs

----------------------------------------------------------------------------
(* Values.                                                                  *)

\* Python's None for an Optional[Version]; a Version is <<major, minor, micro>>.
NoVersion == <<>>
StoreVersions == {<<0, 0, 1>>, <<0, 0, 2>>}

\* Python's None for Optional[str]; NoAttr: the object has no such attribute.
None == "None"
NoAttr == "NoAttr"

\* Weights: 0 is what deepface's loadModel() gives, k > 0 the result of the
\* k-th training run; NotBuilt: get_base_model has not run in the process.
NotBuilt == -1
Pretrained == 0

\* The images handed to the store.  FaceImage (data.py:20-37) has the fields
\* path, identity and meta and no attribute `source`; embed reads
\* image.source, so an image that carries one is modelled as well.
\* readable: cv2.imread gives a 3-channel array.
Images ==
    { [path |-> "a.jpg", identity |-> "x", source |-> "lfw",  readable |-> TRUE],
      [path |-> "b.jpg", identity |-> "y", source |-> NoAttr, readable |-> TRUE],
      [path |-> "c.jpg", identity |-> "z", source |-> None,   readable |-> FALSE] }

CacheDirs == {None, "embeddings"}

\* Architecture.VGGFACE = 'VGGFace': .name is the member's name, .value its value.
ArchName == "VGGFACE"
ArchValue == "VGGFace"

\* An embedding: what predict gives for the pixels at `path` under `weights`;
\* tag is history: the current_version of the model that computed it.
NoVal == [path |-> "", weights |-> NotBuilt, tag |-> NoVersion]
NoPath == <<>>
NoImage == [path |-> "", identity |-> "", source |-> NoAttr, readable |-> FALSE]
NoCall == [op |-> "none", m |-> 0, img |-> NoImage, dir |-> None, hash |-> <<>>,
           path |-> NoPath, val |-> NoVal, err |-> "", from |-> ""]

----------------------------------------------------------------------------
(* Pure helpers of the store.                                               *)

\* EmbeddingModel.__str__: f'{name}_{version}' when current_version is set
\* (a Version object is always truthy), else the bare name.
ModelStr(version) ==
    IF version # NoVersion THEN <<ArchValue, "_", version>> ELSE <<ArchValue>>

\* hashlib.md5(path.encode()).hexdigest() + '.obj': a digest of the path
\* string alone (taken as collision free).
Digest(path) == <<"md5", path>>

\* image.source or '_'
Namespace(img) == IF img.source = None THEN "_" ELSE img.source

\* models.py:135-144: the output_path of embed.
embed_path(img, dir, version) ==
    <<dir, ModelStr(version), Namespace(img), Digest(img.path)>>

\* data.py:85-89: the output_path of get_embedding; architecture.name is the
\* enum member's name and carries no version.
get_embedding_path(img, dir) == <<dir, <<ArchName>>, Digest(img.path)>>

\* The Version a derived path names (NoVersion when it names none).
PathVersion(path) == IF Len(path[2]) = 3 THEN path[2][3] ELSE NoVersion

\* FaceImage.__hash__ is hash(path + identity), EmbeddingModel.__hash__ is
\* hash(str(self)): the hash of the argument tuple the cache keys on.
embed_hash(obj, img, dir) == <<ModelStr(obj.version), <<img.path, img.identity>>, dir>>
get_embedding_hash(img, dir) == <<<<ArchName>>, <<img.path, img.identity>>, dir>>

\* EmbeddingModel.__eq__ between two models of one class and architecture:
\* the names agree, so the versions decide.
ModelEq(stored, looked) == stored.version = looked.version

\* The entries of process p's cache that a call with these arguments hits.  A
\* key holds a reference to the model object, so it compares the object's
\* present state (objs[p][e.m]) under the hash taken when it was stored.
Hits(p, op, m, img, dir) ==
    { e \in memo[p] :
        /\ e.op = op
        /\ e.dir = dir
        /\ e.img.path = img.path              \* FaceImage.__eq__
        /\ IF op = "embed"
           THEN /\ e.hash = embed_hash(objs[p][m], img, dir)
                /\ ModelEq(objs[p][e.m], objs[p][m])
           ELSE e.hash = get_embedding_hash(img, dir) }

\* base_model.predict(x)[0]
Predict(p, img, version) ==
    [path |-> img.path, weights |-> base[p], tag |-> version]

Count(path) == IF path \in DOMAIN computed THEN computed[path] ELSE 0

\* A function with one point set (the file or counter at `path`).
Put(f, path, v) == [q \in DOMAIN f \cup {path} |-> IF q = path THEN v ELSE f[q]]

Raise(p, err) ==
    /\ pc' = [pc EXCEPT ![p] = "raised"]
    /\ call' = [call EXCEPT ![p].err = err]

----------------------------------------------------------------------------
(* The model objects and the weight files.                                  *)

\* Architecture.get_base_model is cached per process: deepface's loadModel()
\* runs on the first use and every later use gets the same object.
BaseAfterGet(p) == IF base[p] = NotBuilt THEN Pretrained ELSE base[p]

\* Architecture.get_embedding_model(version), with
\* EmbeddingModel.__init__: every model of the architecture is built on the
\* one cached base model; a version makes __init__ load its weights into it,
\* and raises (no object) when the weight file is missing.
get_embedding_model(p, version) ==
    /\ pc[p] = "idle"
    /\ calls < MaxCalls
    /\ calls' = calls + 1
    /\ Len(objs[p]) < MaxModels
    /\ IF version # NoVersion /\ version \notin DOMAIN weightFiles
       THEN /\ base' = [base EXCEPT ![p] = BaseAfterGet(p)]
            /\ UNCHANGED objs
       ELSE /\ objs' = [objs EXCEPT ![p] = Append(@, [version |-> version])]
            /\ base' = [base EXCEPT ![p] =
                          IF version # NoVersion THEN weightFiles[version]
                          ELSE BaseAfterGet(p)]
    /\ UNCHANGED <<pc, call, memo, disk, weightFiles, trained, computed>>

\* EmbeddingModel.load_weights: raises when the file is missing, else the
\* shared base model takes the file's weights and the model the version.
load_weights(p, m, version) ==
    /\ pc[p] = "idle"
    /\ calls < MaxCalls
    /\ calls' = calls + 1
    /\ m \in 1..Len(objs[p])
    /\ version \in DOMAIN weightFiles
    /\ base' = [base EXCEPT ![p] = weightFiles[version]]
    /\ objs' = [objs EXCEPT ![p][m].version = version]
    /\ UNCHANGED <<pc, call, memo, disk, weightFiles, trained, computed>>

\* EmbeddingModel.save_weights: base_model.save_weights(path, overwrite=False)
\* writes the file, or, when it exists, asks the user and writes only if they
\* agree (proceed); the model takes the version either way.
save_weights(p, m, version, proceed) ==
    /\ pc[p] = "idle"
    /\ calls < MaxCalls
    /\ calls' = calls + 1
    /\ m \in 1..Len(objs[p])
    /\ weightFiles' = IF version \notin DOMAIN weightFiles \/ proceed
                      THEN Put(weightFiles, version, base[p])
                      ELSE weightFiles
    /\ objs' = [objs EXCEPT ![p][m].version = version]
    /\ UNCHANGED <<pc, call, memo, base, disk, trained, computed>>

\* TripletEmbeddingModel.train: fitting the trainable model built around
\* base_model changes the base model's weights; current_version stays.
train(p, m) ==
    /\ pc[p] = "idle"
    /\ calls < MaxCalls
    /\ calls' = calls + 1
    /\ m \in 1..Len(objs[p])
    /\ trained < MaxTrain
    /\ trained' = trained + 1
    /\ base' = [base EXCEPT ![p] = trained + 1]
    /\ UNCHANGED <<pc, call, memo, objs, disk, weightFiles, computed>>

\* The process ends and a new one starts: everything in memory is gone, the
\* files stay.
Restart(p) ==
    /\ pc[p] = "idle"
    /\ calls < MaxCalls
    /\ calls' = calls + 1
    /\ objs[p] # <<>> \/ base[p] # NotBuilt
    /\ memo' = [memo EXCEPT ![p] = {}]
    /\ base' = [base EXCEPT ![p] = NotBuilt]
    /\ objs' = [objs EXCEPT ![p] = <<>>]
    /\ UNCHANGED <<pc, call, disk, weightFiles, trained, computed>>

----------------------------------------------------------------------------
(* EmbeddingModel.embed(image, cache_dir), one step per access to the cache *)
(* or the disk.                                                             *)

\* The @cache wrapper: the key is made from the arguments as they are at the
\* call; a hit returns the stored value without running the body.
embed_call(p, m, img, dir) ==
    /\ pc[p] = "idle"
    /\ calls < MaxCalls
    /\ calls' = calls + 1
    /\ m \in 1..Len(objs[p])
    /\ LET hits == Hits(p, "embed", m, img, dir)
           c == [NoCall EXCEPT !.op = "embed", !.m = m, !.img = img, !.dir = dir,
                               !.hash = embed_hash(objs[p][m], img, dir)]
       IN  IF hits # {}
           THEN \E e \in hits :
                  /\ call' = [call EXCEPT ![p] =
                                [c EXCEPT !.val = e.val, !.from = "memo",
                                          !.path = IF dir # None /\ img.source # NoAttr
                                                   THEN embed_path(img, dir, objs[p][m].version)
                                                   ELSE NoPath]]
                  /\ pc' = [pc EXCEPT ![p] = "done"]
           ELSE /\ call' = [call EXCEPT ![p] = c]
                /\ pc' = [pc EXCEPT ![p] = "body"]
    /\ UNCHANGED <<memo, base, objs, disk, weightFiles, trained,
                   computed>>

\* A variant of embed's body without the os.path.exists test: it computes
\* and writes whether or not the file is there.
embed_body_without_exists(p) ==
    /\ pc[p] = "body"
    /\ call[p].op = "embed"
    /\ LET c == call[p]
           version == objs[p][c.m].version
       IN  IF ~c.img.readable
           THEN Raise(p, "ValueError")
           ELSE IF c.dir = None
           THEN /\ call' = [call EXCEPT ![p].val = Predict(p, c.img, version),
                                        ![p].from = "computed"]
                /\ pc' = [pc EXCEPT ![p] = "return"]
           ELSE IF c.img.source = NoAttr
           THEN Raise(p, "AttributeError")
           ELSE /\ call' = [call EXCEPT ![p].path = embed_path(c.img, c.dir, version)]
                /\ pc' = [pc EXCEPT ![p] = "compute"]
    /\ UNCHANGED <<memo, base, objs, disk, weightFiles, trained,
                   computed, calls>>

\* models.py:132-149 and 163-165: read the image, derive the path, look for
\* the file; without a cache_dir predict at once.
embed_body(p) ==
    /\ pc[p] = "body"
    /\ call[p].op = "embed"
    /\ LET c == call[p]
           version == objs[p][c.m].version
       IN  IF ~c.img.readable
           THEN Raise(p, "ValueError")              \* get_image
           ELSE IF c.dir = None
           THEN /\ call' = [call EXCEPT ![p].val = Predict(p, c.img, version),
                                        ![p].from = "computed"]
                /\ pc' = [pc EXCEPT ![p] = "return"]
           ELSE IF c.img.source = NoAttr
           THEN Raise(p, "AttributeError")          \* image.source
           ELSE LET path == embed_path(c.img, c.dir, version)
                IN  /\ call' = [call EXCEPT ![p].path = path]
                    /\ pc' = [pc EXCEPT ![p] =
                                IF path \in DOMAIN disk THEN "load" ELSE "compute"]
    /\ UNCHANGED <<memo, base, objs, disk, weightFiles, trained,
                   computed, calls>>

\* open(output_path, 'rb') and pickle.load: a file that is not completely
\* written does not unpickle.
embed_load(p) ==
    /\ pc[p] = "load"
    /\ LET f == disk[call[p].path]
       IN  IF f.complete
           THEN /\ call' = [call EXCEPT ![p].val = f.val, ![p].from = "disk"]
                /\ pc' = [pc EXCEPT ![p] = "return"]
           ELSE Raise(p, "EOFError")
    /\ UNCHANGED <<memo, base, objs, disk, weightFiles, trained,
                   computed, calls>>

\* embedding = self.base_model.predict(x)[0]
embed_compute(p) ==
    /\ pc[p] = "compute"
    /\ call[p].op = "embed"
    /\ call' = [call EXCEPT ![p].val =
                  Predict(p, call[p].img, objs[p][call[p].m].version),
                            ![p].from = "computed"]
    /\ computed' = Put(computed, call[p].path, Count(call[p].path) + 1)
    /\ pc' = [pc EXCEPT ![p] = "open"]
    /\ UNCHANGED <<memo, base, objs, disk, weightFiles, trained, calls>>

\* os.makedirs(..., exist_ok=True) and open(output_path, 'wb'): the file
\* exists from here on, and is empty (an existing one is truncated).
embed_open(p) ==
    /\ pc[p] = "open"
    /\ disk' = Put(disk, call[p].path, [complete |-> FALSE, val |-> NoVal])
    /\ pc' = [pc EXCEPT ![p] = "dump"]
    /\ UNCHANGED <<call, memo, base, objs, weightFiles, trained,
                   computed, calls>>

\* pickle.dump(embedding, f) and the close that ends the with block.
embed_dump(p) ==
    /\ pc[p] = "dump"
    /\ disk' = Put(disk, call[p].path, [complete |-> TRUE, val |-> call[p].val])
    /\ pc' = [pc EXCEPT ![p] = "return"]
    /\ UNCHANGED <<call, memo, base, objs, weightFiles, trained,
                   computed, calls>>

\* os.makedirs or open(output_path, 'wb') fails (no permission, no space):
\* the OSError leaves embed, which has no handler, and no file is made.
embed_open_fails(p) ==
    /\ pc[p] = "open"
    /\ Raise(p, "OSError")
    /\ UNCHANGED <<memo, base, objs, disk, weightFiles, trained,
                   computed, calls>>

\* pickle.dump fails after the file was opened (the disk is full): the
\* OSError leaves embed, the with block closes the file, and the file stays
\* at output_path as far as it was written.
embed_dump_fails(p) ==
    /\ pc[p] = "dump"
    /\ Raise(p, "OSError")
    /\ UNCHANGED <<memo, base, objs, disk, weightFiles, trained,
                   computed, calls>>

\* The body returns: the @cache wrapper stores the value under the key of
\* the call and hands it to the caller.
embed_return(p) ==
    /\ pc[p] = "return"
    /\ memo' = [memo EXCEPT ![p] = @ \cup
                  {[op |-> call[p].op, hash |-> call[p].hash, m |-> call[p].m,
                    img |-> call[p].img, dir |-> call[p].dir, val |-> call[p].val]}]
    /\ pc' = [pc EXCEPT ![p] = "done"]
    /\ UNCHANGED <<call, base, objs, disk, weightFiles, trained,
                   computed, calls>>

\* The caller has the value (done) or the exception (raised) and goes on.
Finish(p) ==
    /\ pc[p] \in {"done", "raised"}
    /\ pc' = [pc EXCEPT ![p] = "idle"]
    /\ call' = [call EXCEPT ![p] = NoCall]
    /\ UNCHANGED <<memo, base, objs, disk, weightFiles, trained,
                   computed, calls>>

----------------------------------------------------------------------------
(* FaceImage.get_embedding(architecture, output_dir).                       *)

get_embedding_call(p, img, dir) ==
    /\ pc[p] = "idle"
    /\ calls < MaxCalls
    /\ calls' = calls + 1
    /\ LET hits == Hits(p, "get_embedding", 0, img, dir)
           c == [NoCall EXCEPT !.op = "get_embedding", !.img = img, !.dir = dir,
                               !.hash = get_embedding_hash(img, dir)]
       IN  IF hits # {}
           THEN \E e \in hits :
                  /\ call' = [call EXCEPT ![p] =
                                [c EXCEPT !.val = e.val, !.from = "memo",
                                          !.path = IF dir # None
                                                   THEN get_embedding_path(img, dir)
                                                   ELSE NoPath]]
                  /\ pc' = [pc EXCEPT ![p] = "done"]
           ELSE /\ call' = [call EXCEPT ![p] =
                              [c EXCEPT !.path = IF dir # None
                                                 THEN get_embedding_path(img, dir)
                                                 ELSE NoPath]]
                /\ pc' = [pc EXCEPT ![p] =
                            IF dir # None /\ get_embedding_path(img, dir) \in DOMAIN disk
                            THEN "load" ELSE "compute"]
    /\ UNCHANGED <<memo, base, objs, disk, weightFiles, trained,
                   computed>>

\* FaceImage._compute_embedding: get_image, then architecture.resolution and
\* architecture.get_embedding_model() (which build the cached base model),
\* then embedding_model.predict(x): EmbeddingModel defines no predict, so
\* the call raises AttributeError and nothing is written.
get_embedding_compute(p) ==
    /\ pc[p] = "compute"
    /\ call[p].op = "get_embedding"
    /\ IF ~call[p].img.readable
       THEN /\ Raise(p, "ValueError")
            /\ UNCHANGED base
       ELSE /\ Raise(p, "AttributeError")
            /\ base' = [base EXCEPT ![p] = BaseAfterGet(p)]
    /\ UNCHANGED <<memo, objs, disk, weightFiles, trained,
                   computed, calls>>

----------------------------------------------------------------------------
(* Part II: values of the sampling engine.                                  *)

\* An identity is a Python str, modelled as the sequence of its code points,
\* so that sorted() and '|'.join() act on it as they do on strings.
Bar == 124                                   \* ord('|')
Identities == {<<97>>, <<97, 98>>, <<98>>}   \* 'a', 'ab', 'b'

\* An image of a list: obj tells the objects of one list apart (its position).
FaceImage(i, identity) == [obj |-> i, identity |-> identity]

\* The lists of at most MaxImages images over Identities.
ImageLists ==
    UNION { { [i \in 1..len |-> FaceImage(i, ids[i])] : ids \in [1..len -> Identities] }
            : len \in 0..MaxImages }

\* TestDataset.images: DummyFaceImage(path='', identity=f'TEST-{idx}') for
\* idx in [1, 1, 1, 2, 2, 2, 3, 3, 4, 4, 5].
TestIdentity(idx) == <<84, 69, 83, 84, 45, 48 + idx>>
TestDatasetIds == <<1, 1, 1, 2, 2, 2, 3, 3, 4, 4, 5>>
TestDataset == [i \in 1..Len(TestDatasetIds) |-> FaceImage(i, TestIdentity(TestDatasetIds[i]))]

\* Arguments.  same: True, False or omitted (None); n: omitted (NoN) or a
\* non-negative int; fraction_test: a float num/den or an int num;
\* random_state: an int or None (NoSeed).
Sames == {"True", "False", None}
NoN == -1
Ns == {NoN} \cup (0..MaxN)
float(num, den) == [kind |-> "float", num |-> num, den |-> den]
int(num) == [kind |-> "int", num |-> num, den |-> 1]
Fractions ==
    { float(num, 4) : num \in {-1, 0, 1, 2, 3, 4, 6} } \cup { int(num) : num \in {0, 1, 2} }
NoSeed == -1
Seeds == {42, NoSeed}

NoFraction == float(0, 1)
NoOp == [name |-> "none", same |-> None, n |-> NoN, fraction_test |-> NoFraction,
         random_state |-> NoSeed, args |-> <<>>]
NoSplit == [pairs |-> <<>>, fraction_test |-> NoFraction, random_state |-> NoSeed,
            outcome |-> "none", train_idx |-> <<>>, test_idx |-> <<>>]

\* No sampling operation has run.
PairsIdle ==
    /\ images = <<>>
    /\ lastOp = NoOp
    /\ outcome = "none"
    /\ pairs = <<>>
    /\ triplets = <<>>
    /\ train_idx = <<>>
    /\ test_idx = <<>>
    /\ prev = NoSplit

----------------------------------------------------------------------------
(* Sequences, as the Python code builds them.                               *)

Range(seq) == { seq[i] : i \in DOMAIN seq }

RECURSIVE Flatten(_)
Flatten(seqs) == IF seqs = <<>> THEN <<>> ELSE Head(seqs) \o Flatten(Tail(seqs))

\* The members of a set of ints in ascending order.
RECURSIVE Ascending(_)
Ascending(S) ==
    IF S = {} THEN <<>>
    ELSE LET m == CHOOSE x \in S : \A y \in S : x <= y
         IN  <<m>> \o Ascending(S \ {m})

\* All sequences that take their k-th member from sets[k].
RECURSIVE Product(_)
Product(sets) ==
    IF sets = <<>> THEN {<<>>}
    ELSE { <<h>> \o t : h \in Head(sets), t \in Product(Tail(sets)) }

\* The orders in which the members of a set can be iterated.
RECURSIVE Orders(_)
Orders(S) ==
    IF S = {} THEN {<<>>}
    ELSE UNION { { <<x>> \o t : t \in Orders(S \ {x}) } : x \in S }

\* random.sample(population, k): k members at distinct positions, in any order.
Sample(population, k) ==
    { [i \in 1..k |-> population[f[i]]] :
        f \in { g \in [1..k -> DOMAIN population] :
                  \A i, j \in 1..k : i # j => g[i] # g[j] } }

Min(a, b) == IF a <= b THEN a ELSE b

\* str < str: by code point, a proper prefix first.
RECURSIVE StrLess(_, _)
StrLess(s, t) ==
    IF t = <<>> THEN FALSE
    ELSE IF s = <<>> THEN TRUE
    ELSE IF Head(s) # Head(t) THEN Head(s) < Head(t)
    ELSE StrLess(Tail(s), Tail(t))

\* sorted() of two strings (stable: the order is kept unless the second is less).
Sorted2(s, t) == IF StrLess(t, s) THEN <<t, s>> ELSE <<s, t>>

\* '|'.join(strs)
RECURSIVE Join(_)
Join(strs) ==
    IF strs = <<>> THEN <<>>
    ELSE IF Len(strs) = 1 THEN Head(strs)
    ELSE Head(strs) \o <<Bar>> \o Join(Tail(strs))

----------------------------------------------------------------------------
(* FacePair, FaceTriplet and the grouping by identity.                      *)

FacePair(first, second) == [first |-> first, second |-> second]

\* A variant of __post_init__ without the check of the negative.
FaceTriplet_post_init_anchor_only(anchor, positive, negative) ==
    IF anchor.identity # positive.identity THEN "ValueError" ELSE "ok"

\* FaceTriplet.__post_init__: the exception it raises, or "ok".
FaceTriplet_post_init(anchor, positive, negative) ==
    IF anchor.identity # positive.identity THEN "ValueError"
    ELSE IF anchor.identity = negative.identity THEN "ValueError"
    ELSE "ok"

FaceTriplet(anchor, positive, negative) ==
    [anchor |-> anchor, positive |-> positive, negative |-> negative]

\* The keys of images_by_identity, in insertion order (first occurrence).
Keys(data) ==
    LET firsts == { i \in DOMAIN data :
                      \A j \in 1..(i - 1) : data[j].identity # data[i].identity }
        order == Ascending(firsts)
    IN  [k \in DOMAIN order |-> data[order[k]].identity]

\* images_by_identity[identity]: the images of the identity, in input order.
Group(data, identity) == SelectSeq(data, LAMBDA x : x.identity = identity)

\* images_by_identity.items(): the groups in insertion order.
images_by_identity(data) ==
    [k \in DOMAIN Keys(data) |-> Group(data, Keys(data)[k])]

identities(data) == { data[i].identity : i \in DOMAIN data }

\* A variant of Combinations that pairs an image with its successor only.
CombinationsAdjacent(group) ==
    Flatten([i \in DOMAIN group |->
               [j \in 1..Min(1, Len(group) - i) |-> <<group[i], group[i + j]>>]])

\* for i, image in enumerate(images): for positive in images[i + 1:]
Combinations(group) ==
    Flatten([i \in DOMAIN group |->
               [j \in 1..(Len(group) - i) |-> <<group[i], group[i + j]>>]])

\* The positive pairs of make_pairs, the (anchor, positive) of make_triplets.
PositivePairs(data) ==
    LET groups == images_by_identity(data)
    IN  Flatten([k \in DOMAIN groups |->
                   LET c == Combinations(groups[k])
                   IN  [x \in DOMAIN c |-> FacePair(c[x][1], c[x][2])]])

\* A variant of Negatives that draws from the images of every identity.
NegativesOfAnyIdentity(data, identity) == Range(data)

\* random.choice(images_by_identity[random.choice(tuple(identities - {identity}))]):
\* any image of another identity.
Negatives(data, identity) == { x \in Range(data) : x.identity # identity }

----------------------------------------------------------------------------
(* make_pairs(data, same, n).                                               *)

\* A variant of CrossPairs that takes the first image only of every other
\* identity.
CrossPairsFirstNegative(data, order) ==
    LET groups == images_by_identity(data)
    IN  Flatten([k \in DOMAIN groups |->
          Flatten([i \in DOMAIN groups[k] |->
            [o \in DOMAIN order[k] |->
               FacePair(groups[k][i], Group(data, order[k][o])[1])]])])

\* same is False, n omitted: for every image, every image of every other
\* identity; `identities - {identity}` is a set, iterated in an order the
\* language does not fix (order[k]: the order met for the k-th group).
CrossPairs(data, order) ==
    LET groups == images_by_identity(data)
    IN  Flatten([k \in DOMAIN groups |->
          Flatten([i \in DOMAIN groups[k] |->
            Flatten([o \in DOMAIN order[k] |->
              LET negatives == Group(data, order[k][o])
              IN  [j \in DOMAIN negatives |-> FacePair(groups[k][i], negatives[j])]])])])

CrossOrders(data) ==
    LET keys == Keys(data)
    IN  Product([k \in DOMAIN keys |-> Orders(identities(data) \ {keys[k]})])

\* A variant of RandomNegativePairs that draws the two images from any two
\* identities, distinct or not.
RandomPairs(data) ==
    { FacePair(x, y) : x \in Range(data), y \in Range(data) }

\* same is False, n given: n times, two distinct identities and one image of
\* each; random.sample raises ValueError when there are not two.
RandomNegativePairs(data) ==
    { pair \in { FacePair(x, y) : x \in Range(data), y \in Range(data) } :
        pair.first.identity # pair.second.identity }

\* A variant of MatchingNegatives that takes the second image from any identity.
MatchingNegativesAnyIdentity(data, pair) ==
    { FacePair(x, other) : x \in {pair.first, pair.second}, other \in Range(data) }

\* same omitted: the negative pair made for one positive pair.
MatchingNegatives(data, pair) ==
    { FacePair(x, negative) : x \in {pair.first, pair.second},
                              negative \in Negatives(data, pair.first.identity) }

\* if n: res = random.sample(res, min(len(res), n))
Downsampled(res, n) ==
    IF n # NoN /\ n # 0 THEN Sample(res, Min(Len(res), n)) ELSE {res}

Result(out, res) == [outcome |-> out, pairs |-> res]

\* Every way a call of make_pairs can end.
make_pairs_results(data, same, n) ==
    IF same = "False"
    THEN IF n = NoN
         THEN { Result("ok", CrossPairs(data, order)) : order \in CrossOrders(data) }
         ELSE IF n = 0 THEN { Result("ok", <<>>) }
         ELSE IF Cardinality(identities(data)) < 2 THEN { Result("ValueError", <<>>) }
         ELSE { Result("ok", res) : res \in [1..n -> RandomNegativePairs(data)] }
    ELSE LET positives == PositivePairs(data)
         IN  IF same = "True"
             THEN { Result("ok", res) : res \in Downsampled(positives, n) }
             ELSE IF \E k \in DOMAIN positives :
                        Negatives(data, positives[k].first.identity) = {}
             THEN { Result("IndexError", <<>>) }       \* random.choice(())
             ELSE UNION { { Result("ok", res) : res \in Downsampled(positives \o negatives, n) }
                          : negatives \in Product([k \in DOMAIN positives |->
                                                     MatchingNegatives(data, positives[k])]) }

\* The functions that draw at random are run on the enumerated lists; the
\* 11-image fixture is paired without random draws.
Enumerated(data) == Len(data) <= MaxImages

make_pairs(same, n) ==
    /\ lastOp = NoOp
    /\ Enumerated(images) \/ (same = "True" /\ n = NoN)
    /\ \E r \in make_pairs_results(images, same, n) :
         /\ outcome' = r.outcome
         /\ pairs' = r.pairs
    /\ lastOp' = [NoOp EXCEPT !.name = "make_pairs", !.same = same, !.n = n]
    /\ triplets' = <<>>
    /\ train_idx' = <<>>
    /\ test_idx' = <<>>
    /\ prev' = NoSplit
    /\ UNCHANGED images

----------------------------------------------------------------------------
(* make_triplets(data) and the construction of one FaceTriplet.             *)

\* A variant of the guard that lets a single identity through.
NoIdentities(data) == Cardinality(identities(data)) < 1

\* len(identities) < 2
TooFewIdentities(data) == Cardinality(identities(data)) < 2

\* Every way a call of make_triplets can end.
make_triplets_results(data) ==
    LET positives == PositivePairs(data)
    IN  IF TooFewIdentities(data) THEN { [outcome |-> "ValueError", triplets |-> <<>>] }
        ELSE IF \E k \in DOMAIN positives :
                   Negatives(data, positives[k].first.identity) = {}
        THEN { [outcome |-> "IndexError", triplets |-> <<>>] }
        ELSE { IF \A k \in DOMAIN res :
                    FaceTriplet_post_init(res[k].anchor, res[k].positive, res[k].negative) = "ok"
               THEN [outcome |-> "ok", triplets |-> res]
               ELSE [outcome |-> "ValueError", triplets |-> <<>>]
               : res \in Product([k \in DOMAIN positives |->
                           { FaceTriplet(positives[k].first, positives[k].second, negative)
                             : negative \in Negatives(data, positives[k].first.identity) }]) }

make_triplets ==
    /\ lastOp = NoOp
    /\ Enumerated(images)
    /\ \E r \in make_triplets_results(images) :
         /\ outcome' = r.outcome
         /\ triplets' = r.triplets
    /\ lastOp' = [NoOp EXCEPT !.name = "make_triplets"]
    /\ pairs' = <<>>
    /\ train_idx' = <<>>
    /\ test_idx' = <<>>
    /\ prev' = NoSplit
    /\ UNCHANGED images

\* FaceTriplet(anchor, positive, negative) on three images of the list.
NewFaceTriplet(anchor, positive, negative) ==
    /\ lastOp = NoOp
    /\ outcome' = FaceTriplet_post_init(anchor, positive, negative)
    /\ triplets' = IF outcome' = "ok"
                   THEN <<FaceTriplet(anchor, positive, negative)>> ELSE <<>>
    /\ lastOp' = [NoOp EXCEPT !.name = "FaceTriplet",
                          !.args = <<anchor, positive, negative>>]
    /\ pairs' = <<>>
    /\ train_idx' = <<>>
    /\ test_idx' = <<>>
    /\ prev' = NoSplit
    /\ UNCHANGED images

----------------------------------------------------------------------------
(* split_pairs(pairs, fraction_test, random_state).                         *)

\* A variant of GroupKey that joins the identities in the order of the pair.
GroupKeyOrdered(pair) == Join(<<pair.first.identity, pair.second.identity>>)

\* '|'.join(sorted(x.identity for x in pair))
GroupKey(pair) == Join(Sorted2(pair.first.identity, pair.second.identity))

GroupKeys(ps) == { GroupKey(ps[i]) : i \in DOMAIN ps }

\* GroupShuffleSplit's check of test_size against the number of groups: a
\* float must lie strictly between 0 and 1, an int is a number of groups and
\* must be positive and less than the number there are.
ValidTestSize(test_size, n_groups) ==
    IF test_size.kind = "float"
    THEN 0 < test_size.num /\ test_size.num < test_size.den
    ELSE 0 < test_size.num /\ test_size.num < n_groups

\* n_test: ceil(test_size * n_groups) for a float, the int itself otherwise.
NTest(test_size, n_groups) ==
    IF test_size.kind = "float"
    THEN (test_size.num * n_groups + test_size.den - 1) \div test_size.den
    ELSE test_size.num

\* A variant of Positions that keeps one position for every group key.
PositionsOnePerKey(ps, keys) ==
    Ascending({ i \in DOMAIN ps :
                  /\ GroupKey(ps[i]) \in keys
                  /\ \A j \in 1..(i - 1) : GroupKey(ps[j]) # GroupKey(ps[i]) })

\* The positions of ps whose group key is in `keys`, ascending.
Positions(ps, keys) == Ascending({ i \in DOMAIN ps : GroupKey(ps[i]) \in keys })

\* The first n_test groups of rng.permutation(n_groups).  The shuffle is built
\* as GroupShuffleSplit(n_splits=1, test_size=fraction_test): random_state is
\* not handed on, so the permutation comes from numpy's global generator and
\* may be any.
TestGroups(keys, n_test, random_state) ==
    { T \in SUBSET keys : Cardinality(T) = n_test }

SplitResult(out, tr, te) == [outcome |-> out, train_idx |-> tr, test_idx |-> te]

\* Every way a call of split_pairs can end.  ValueError: no groups at all, a
\* test_size out of range, or a train set that would be empty.
split_pairs_results(ps, fraction_test, random_state) ==
    LET keys == GroupKeys(ps)
        n_groups == Cardinality(keys)
        n_test == NTest(fraction_test, n_groups)
    IN  IF ps = <<>> THEN { SplitResult("ValueError", <<>>, <<>>) }
        ELSE IF ~ValidTestSize(fraction_test, n_groups)
        THEN { SplitResult("ValueError", <<>>, <<>>) }
        ELSE IF n_groups - n_test = 0 THEN { SplitResult("ValueError", <<>>, <<>>) }
        ELSE { SplitResult("ok", Positions(ps, keys \ T), Positions(ps, T))
               : T \in TestGroups(keys, n_test, random_state) }

\* split_pairs on the list make_pairs returned, and the same call once more.
split_pairs(fraction_test, random_state) ==
    /\ \/ lastOp.name = "make_pairs" /\ outcome = "ok"
       \/ /\ lastOp.name = "split_pairs"
          /\ prev = NoSplit
          /\ lastOp.fraction_test = fraction_test
          /\ lastOp.random_state = random_state
    /\ \E r \in split_pairs_results(pairs, fraction_test, random_state) :
         /\ outcome' = r.outcome
         /\ train_idx' = r.train_idx
         /\ test_idx' = r.test_idx
    /\ lastOp' = [NoOp EXCEPT !.name = "split_pairs", !.fraction_test = fraction_test,
                          !.random_state = random_state]
    /\ prev' = IF lastOp.name = "split_pairs"
               THEN [pairs |-> pairs, fraction_test |-> lastOp.fraction_test,
                     random_state |-> lastOp.random_state, outcome |-> outcome,
                     train_idx |-> train_idx, test_idx |-> test_idx]
               ELSE NoSplit
    /\ triplets' = <<>>
    /\ UNCHANGED <<images, pairs>>


----------------------------------------------------------------------------
(* Part III: Version (versioning.py).  A Version is <<major, minor, micro>>; *)
(* the strings it is parsed from and printed to are sequences of characters. *)

Components == (0..MaxComponent) \cup {LargeComponent}
Versions == Components \X Components \X Components

Digits == <<"0", "1", "2", "3", "4", "5", "6", "7", "8", "9">>
IsDigit(c) == \E d \in DOMAIN Digits : Digits[d] = c

\* \w on the characters used here: letters, digits and the underscore.
Letters == {"a", "h", "w", "z"}
IsWord(c) == IsDigit(c) \/ c \in Letters \/ c = "_"

AllDigits(s) == s # <<>> /\ \A i \in DOMAIN s : IsDigit(s[i])
AllWord(s) == s # <<>> /\ \A i \in DOMAIN s : IsWord(s[i])

\* int(s) for a string of digits.
RECURSIVE int_of(_)
int_of(s) ==
    IF s = <<>> THEN 0
    ELSE 10 * int_of(SubSeq(s, 1, Len(s) - 1))
           + ((CHOOSE d \in DOMAIN Digits : Digits[d] = s[Len(s)]) - 1)

\* str(n) for an int n >= 0.
RECURSIVE str_of(_)
str_of(n) ==
    IF n < 10 THEN <<Digits[n + 1]>>
    ELSE str_of(n \div 10) \o <<Digits[(n % 10) + 1]>>

\* s.split(c): the pieces of s between the occurrences of c.
RECURSIVE SplitAt(_, _)
SplitAt(s, c) ==
    IF \A i \in DOMAIN s : s[i] # c THEN <<s>>
    ELSE LET i == CHOOSE k \in DOMAIN s : s[k] = c /\ \A j \in 1..(k - 1) : s[j] # c
         IN  <<SubSeq(s, 1, i - 1)>> \o SplitAt(SubSeq(s, i + 1, Len(s)), c)

\* The pieces put together again with c between them.
RECURSIVE JoinWith(_, _)
JoinWith(pieces, c) ==
    IF Len(pieces) = 1 THEN pieces[1]
    ELSE pieces[1] \o <<c>> \o JoinWith(Tail(pieces), c)

NoText == <<>>
Parsed(out, version) == [outcome |-> out, version |-> version]

\* A variant of __str__ that prints major and minor only.
Version_str_short(v) == str_of(v[1]) \o <<".">> \o str_of(v[2])

\* Version.__str__: f'{self.major}.{self.minor}.{self.micro}'
Version_str(v) == str_of(v[1]) \o <<".">> \o str_of(v[2]) \o <<".">> \o str_of(v[3])

\* Version.from_string: the string matches ^(\d+)(?:\.(\d+))?(?:\.(\d+))?$,
\* that is, it is one to three groups of digits with dots between them;
\* int(d or 0) makes a missing group 0.
from_string_result(string) ==
    LET groups == SplitAt(string, ".")
    IN  IF Len(groups) <= 3 /\ \A k \in DOMAIN groups : AllDigits(groups[k])
        THEN Parsed("ok", << int_of(groups[1]),
                             IF Len(groups) >= 2 THEN int_of(groups[2]) ELSE 0,
                             IF Len(groups) >= 3 THEN int_of(groups[3]) ELSE 0 >>)
        ELSE Parsed("ValueError", NoVersion)

\* re.search(r'_(\d(?:\.\d+)+)\.\w+$', filename) matches at the underscore
\* at i when what follows it, cut at its dots, is one digit, then one or
\* more groups of digits, then a last piece of word characters.
MatchesAt(filename, i) ==
    /\ filename[i] = "_"
    /\ LET pieces == SplitAt(SubSeq(filename, i + 1, Len(filename)), ".")
       IN  /\ Len(pieces) >= 3
           /\ Len(pieces[1]) = 1
           /\ \A k \in 1..(Len(pieces) - 1) : AllDigits(pieces[k])
           /\ AllWord(pieces[Len(pieces)])

\* Version.from_filename: from_string of group 1 of the leftmost match.
from_filename_result(filename) ==
    LET starts == { i \in DOMAIN filename : MatchesAt(filename, i) }
    IN  IF starts = {} THEN Parsed("ValueError", NoVersion)
        ELSE LET i == CHOOSE k \in starts : \A j \in starts : k <= j
                 pieces == SplitAt(SubSeq(filename, i + 1, Len(filename)), ".")
             IN  from_string_result(JoinWith(SubSeq(pieces, 1, Len(pieces) - 1), "."))

\* os.path.splitext: the extension starts at the last dot of the last path
\* component, unless only dots precede it there.
splitext(filename) ==
    LET dots == { i \in DOMAIN filename : filename[i] = "." }
        seps == { i \in DOMAIN filename : filename[i] = "/" }
        sep == IF seps = {} THEN 0 ELSE CHOOSE k \in seps : \A j \in seps : j <= k
        dot == IF dots = {} THEN 0 ELSE CHOOSE k \in dots : \A j \in dots : j <= k
    IN  IF dot > sep /\ \E j \in (sep + 1)..(dot - 1) : filename[j] # "."
        THEN <<SubSeq(filename, 1, dot - 1), SubSeq(filename, dot, Len(filename))>>
        ELSE <<filename, <<>>>>

\* Version.append_to_filename: f'{basename}{self.suffix}{ext}'
append_to_filename_result(self, filename) ==
    splitext(filename)[1] \o <<"_">> \o Version_str(self) \o splitext(filename)[2]

\* A variant of __gt__ whose last clause does not compare the majors.
Version_gt_minor_micro(self, other) ==
    \/ self[1] > other[1]
    \/ (self[1] = other[1] /\ self[2] > other[2])
    \/ (self[2] = other[2] /\ self[3] > other[3])

\* Version.__eq__ and __gt__ on two Versions, and __ge__, __lt__, __le__,
\* which are written in terms of them.
Version_eq(self, other) ==
    self[1] = other[1] /\ self[2] = other[2] /\ self[3] = other[3]

Version_gt(self, other) ==
    \/ self[1] > other[1]
    \/ (self[1] = other[1] /\ self[2] > other[2])
    \/ (self[1] = other[1] /\ self[2] = other[2] /\ self[3] > other[3])

Version_ge(self, other) == Version_gt(self, other) \/ Version_eq(self, other)
Version_lt(self, other) == ~(Version_gt(self, other) \/ Version_eq(self, other))
Version_le(self, other) == Version_lt(self, other) \/ Version_eq(self, other)

\* A variant of increment that keeps micro when minor is bumped.
increment_keeps_micro(self, major, minor) ==
    IF major /\ minor THEN Parsed("ValueError", NoVersion)
    ELSE IF major THEN Parsed("ok", <<self[1] + 1, 0, 0>>)
    ELSE IF minor THEN Parsed("ok", <<self[1], self[2] + 1, self[3]>>)
    ELSE Parsed("ok", <<self[1], self[2], self[3] + 1>>)

\* A variant of increment without the check of the two flags.
increment_unchecked(self, major, minor) ==
    IF major THEN Parsed("ok", <<self[1] + 1, 0, 0>>)
    ELSE IF minor THEN Parsed("ok", <<self[1], self[2] + 1, 0>>)
    ELSE Parsed("ok", <<self[1], self[2], self[3] + 1>>)

\* Version.increment(major, minor): a new Version, or ValueError.
increment_result(self, major, minor) ==
    IF major /\ minor THEN Parsed("ValueError", NoVersion)
    ELSE IF major THEN Parsed("ok", <<self[1] + 1, 0, 0>>)
    ELSE IF minor THEN Parsed("ok", <<self[1], self[2] + 1, 0>>)
    ELSE Parsed("ok", <<self[1], self[2], self[3] + 1>>)

----------------------------------------------------------------------------
(* FaceImage.__eq__ and __hash__ (data.py), on two images.                  *)

\* The values compared: a path and an identity (strings), and the class,
\* FaceImage or its subclass DummyFaceImage.
FacePaths == { <<"p">>, <<"p", "x">> }
FaceIdentities == { <<>>, <<"x">>, <<"y">> }
FaceClasses == {"FaceImage", "DummyFaceImage"}
FaceValues == [path : FacePaths, identity : FaceIdentities, class : FaceClasses]

\* isinstance(x, class)
IsInstance(x, class) == x.class = class \/ class = "FaceImage"

\* hash() of a str: equal strings hash alike, and no two of the strings here
\* are taken to collide.
hash_str(s) == <<"hash", s>>

\* FaceImage.__hash__: hash(self.path + self.identity)
FaceImage_hash(self) == hash_str(self.path \o self.identity)

\* FaceImage.__eq__: isinstance(other, self.__class__) and the paths agree.
FaceImage_eq(self, other) == IsInstance(other, self.class) /\ self.path = other.path

NoFace == [path |-> <<>>, identity |-> <<>>, class |-> "None"]
NoFaces == [name |-> "none", self |-> NoFace, other |-> NoFace, eq |-> FALSE,
            hash_self |-> hash_str(<<>>), hash_other |-> hash_str(<<>>)]

----------------------------------------------------------------------------
(* The inputs and the operations on Versions.                               *)

\* The strings handed to from_string: all strings of at most MaxStringLen
\* of these characters.
StringChars == {"0", "1", "9", ".", "a"}
VersionStrings ==
    UNION { [1..len -> StringChars] : len \in 0..MaxStringLen }

\* Filenames with an extension and without a version-like suffix:
\* 'w.h5', 'a_w.h5', 'a.w.h5'.
PlainFilenames ==
    { <<"w", ".", "h", "5">>,
      <<"a", "_", "w", ".", "h", "5">>,
      <<"a", ".", "w", ".", "h", "5">> }

\* Other filenames: 'w', '.h5', 'w_1.2.h5', 'w_1.h5'.
Filenames ==
    PlainFilenames \cup
    { <<"w">>,
      <<".", "h", "5">>,
      <<"w", "_", "1", ".", "2", ".", "h", "5">>,
      <<"w", "_", "1", ".", "h", "5">> }

NoCmp == [eq |-> FALSE, gt |-> FALSE, ge |-> FALSE, lt |-> FALSE, le |-> FALSE]
NoVerOp == [name |-> "none", self |-> NoVersion, other |-> NoVersion,
            major |-> FALSE, minor |-> FALSE, string |-> NoText, filename |-> NoText,
            outcome |-> "none", result |-> NoVersion, text |-> NoText,
            cmp |-> NoCmp, first |-> NoVersion, origin |-> NoText,
            dir_exists |-> FALSE, tags |-> <<>>, model_files |-> <<>>]

\* self == other, self > other, self >= other, self < other, self <= other
compare(self, other) ==
    /\ ver = NoVerOp
    /\ faces = NoFaces
    /\ ver' = [NoVerOp EXCEPT !.name = "compare", !.self = self, !.other = other,
                 !.outcome = "ok",
                 !.cmp = [eq |-> Version_eq(self, other), gt |-> Version_gt(self, other),
                          ge |-> Version_ge(self, other), lt |-> Version_lt(self, other),
                          le |-> Version_le(self, other)]]

\* self.increment(major, minor); self is not assigned to.
increment(self, major, minor) ==
    /\ ver = NoVerOp
    /\ faces = NoFaces
    /\ ver' = [NoVerOp EXCEPT !.name = "increment", !.self = self,
                 !.major = major, !.minor = minor,
                 !.outcome = increment_result(self, major, minor).outcome,
                 !.result = increment_result(self, major, minor).version]

\* Version.from_string(string), on a string or on the text str() gave; in
\* the second case `first` keeps the Version that was printed and `origin`
\* the string it was parsed from.
from_string(string) ==
    /\ \/ ver = NoVerOp /\ faces = NoFaces /\ string \in VersionStrings
       \/ ver.name = "__str__" /\ string = ver.text
    /\ ver' = [ver EXCEPT !.name = "from_string", !.string = string,
                 !.outcome = from_string_result(string).outcome,
                 !.result = from_string_result(string).version,
                 !.first = ver.result,
                 !.origin = IF ver.name = "__str__" THEN ver.string ELSE string]

\* str(version) of the Version from_string returned.
Version__str__ ==
    /\ ver.name = "from_string"
    /\ ver.outcome = "ok"
    /\ ver.first = NoVersion
    /\ ver' = [ver EXCEPT !.name = "__str__", !.text = Version_str(ver.result)]

\* self.append_to_filename(filename)
append_to_filename(self, filename) ==
    /\ ver = NoVerOp
    /\ faces = NoFaces
    /\ ver' = [NoVerOp EXCEPT !.name = "append_to_filename", !.self = self,
                 !.filename = filename, !.outcome = "ok",
                 !.text = append_to_filename_result(self, filename)]

\* Version.from_filename(filename), on a filename or on the one
\* append_to_filename gave (self and filename then stay on record).
from_filename(filename) ==
    /\ \/ ver = NoVerOp /\ faces = NoFaces /\ filename \in Filenames
       \/ ver.name = "append_to_filename" /\ filename = ver.text
    /\ ver' = [ver EXCEPT !.name = "from_filename", !.string = filename,
                 !.outcome = from_filename_result(filename).outcome,
                 !.result = from_filename_result(filename).version]

\* self == other, hash(self), hash(other)
compare_images(self, other) ==
    /\ faces = NoFaces
    /\ ver = NoVerOp
    /\ faces' = [name |-> "compare_images", self |-> self, other |-> other,
                 eq |-> FaceImage_eq(self, other),
                 hash_self |-> FaceImage_hash(self),
                 hash_other |-> FaceImage_hash(other)]

\* The weight file save_weights writes for a version: the version appended
\* to 'weights.h5' (get_weights_path), with the stem written w.
WeightsFilename(version) ==
    append_to_filename_result(version, <<"w", ".", "h", "5">>)

\* The versions of the weight files in a model directory: those with the
\* components 0, 1 and LargeComponent.
DirVersions == { v \in Versions : \A i \in 1..3 : v[i] \in {0, 1, LargeComponent} }

\* The model directories: the versions of the weight files they hold, in
\* the order os.listdir gives them.
ModelDirs == UNION { [1..len -> DirVersions] : len \in 0..MaxFiles }

\* max(versions): the first item, replaced by each later one that is > it.
RECURSIVE VersionMax(_)
VersionMax(versions) ==
    IF Len(versions) = 1 THEN versions[1]
    ELSE LET m == VersionMax(SubSeq(versions, 1, Len(versions) - 1))
             v == versions[Len(versions)]
         IN  IF Version_gt(v, m) THEN v ELSE m

\* Architecture.get_latest_version on the listing of model_dir: a missing
\* directory counts as an empty one, an empty one is a ValueError, and the
\* error of Version.from_filename on any file is the error of the call.
get_latest_version_result(dir_exists, files) ==
    LET model_files == IF dir_exists THEN files ELSE <<>>
        parsed == [k \in DOMAIN model_files |-> from_filename_result(model_files[k])]
    IN  IF model_files = <<>> THEN Parsed("ValueError", NoVersion)
        ELSE IF \E k \in DOMAIN parsed : parsed[k].outcome # "ok"
        THEN Parsed("ValueError", NoVersion)
        ELSE Parsed("ok", VersionMax([k \in DOMAIN parsed |-> parsed[k].version]))

\* architecture.get_latest_version() when model_dir holds the weight files
\* of the versions in tags, or does not exist.
get_latest_version(dir_exists, tags) ==
    /\ ver = NoVerOp
    /\ faces = NoFaces
    /\ dir_exists \/ tags = <<>>
    /\ LET model_files == [k \in DOMAIN tags |-> WeightsFilename(tags[k])]
       IN  ver' = [NoVerOp EXCEPT !.name = "get_latest_version",
                     !.dir_exists = dir_exists, !.tags = tags,
                     !.model_files = model_files,
                     !.outcome = get_latest_version_result(dir_exists, model_files).outcome,
                     !.result = get_latest_version_result(dir_exists, model_files).version]

ValuesIdle == ver = NoVerOp /\ faces = NoFaces

----------------------------------------------------------------------------
(* Part IV: Dataset.images.  A Dataset is its class and its parameters; the *)
(* list images returns is modelled by the paths of its FaceImages.          *)

\* max_num_images: None and 0 act alike in `if self.max_num_images and ...`.
NoMax == 0

\* os.listdir(ForenFaceDataset.RESOURCE_FOLDER)
ForenFaceFiles == <<"001a.jpg", "001b.jpg", "002a.jpg">>

ForenFaceDataset(max_num_images) ==
    [class |-> "ForenFaceDataset", max_num_images |-> max_num_images, years |-> <<>>]
EnfsiDataset(years) ==
    [class |-> "EnfsiDataset", max_num_images |-> NoMax, years |-> years]
NewTestDataset ==
    [class |-> "TestDataset", max_num_images |-> NoMax, years |-> <<>>]

DatasetValues ==
    { ForenFaceDataset(max) : max \in {NoMax} \cup (1..Len(ForenFaceFiles)) }
      \cup { EnfsiDataset(years) : years \in {<<2011>>, <<2011, 2012>>} }
      \cup { NewTestDataset }

\* Dataset.__str__ is the class name; EnfsiDataset adds its years.
Dataset_str(self) ==
    IF self.class = "EnfsiDataset" THEN <<self.class, self.years>> ELSE <<self.class>>

\* Dataset.__hash__: hash(str(self))
Dataset_hash(self) == hash_str(Dataset_str(self))

\* Dataset.__eq__: isinstance(other, self.__class__) and str(self) == str(other)
Dataset_eq(self, other) ==
    self.class = other.class /\ Dataset_str(self) = Dataset_str(other)

\* The images of one year of the ENFSI data: a reference and a query image.
EnfsiYear(year) == IF year = 2011 THEN <<"2011/r", "2011/q">> ELSE <<"2012/r", "2012/q">>

\* The lists the body of images can return for a dataset.  ForenFaceDataset
\* draws max_num_images of the files at random when there are more.
images_results(self) ==
    IF self.class = "ForenFaceDataset"
    THEN IF self.max_num_images # NoMax /\ self.max_num_images < Len(ForenFaceFiles)
         THEN Sample(ForenFaceFiles, self.max_num_images)
         ELSE {ForenFaceFiles}
    ELSE IF self.class = "EnfsiDataset"
    THEN { Flatten([k \in DOMAIN self.years |-> EnfsiYear(self.years[k])]) }
    ELSE { [i \in DOMAIN TestDatasetIds |-> ""] }

NoAccess == [d |-> 0, val |-> <<>>, from |-> "none"]

DatasetsIdle ==
    /\ datasets = <<>>
    /\ dcache = {}
    /\ access = NoAccess
    /\ dfirst = <<>>
    /\ dcomputed = <<>>

\* A Dataset is constructed.
NewDataset(self) ==
    /\ Len(datasets) < MaxDatasets
    /\ datasets' = Append(datasets, self)
    /\ dfirst' = Append(dfirst, <<>>)
    /\ dcomputed' = Append(dcomputed, 0)
    /\ UNCHANGED <<dcache, access>>

\* The entries of the cache that an access of datasets[d].images hits: the
\* key is the receiver, looked up by its hash and compared with ==.
DatasetHits(d) ==
    { e \in dcache :
        /\ Dataset_hash(datasets[e.self]) = Dataset_hash(datasets[d])
        /\ Dataset_eq(datasets[e.self], datasets[d]) }

\* datasets[d].images: the cached list on a hit, else the body runs and its
\* list is stored under the receiver.
images_access(d) ==
    /\ d \in DOMAIN datasets
    /\ IF DatasetHits(d) # {}
       THEN /\ \E e \in DatasetHits(d) :
                 /\ access' = [d |-> d, val |-> e.val, from |-> "cache"]
                 /\ dfirst' = [dfirst EXCEPT ![d] = IF @ = <<>> THEN <<e.val>> ELSE @]
            /\ UNCHANGED <<dcache, dcomputed>>
       ELSE /\ \E val \in images_results(datasets[d]) :
                 /\ access' = [d |-> d, val |-> val, from |-> "computed"]
                 /\ dcache' = dcache \cup {[self |-> d, val |-> val]}
                 /\ dfirst' = [dfirst EXCEPT ![d] = IF @ = <<>> THEN <<val>> ELSE @]
            /\ dcomputed' = [dcomputed EXCEPT ![d] = @ + 1]
    /\ UNCHANGED datasets

----------------------------------------------------------------------------
(* The store's specifications.                                              *)

VersionOpt == StoreVersions \cup {NoVersion}

StoreIdle ==
    /\ pc = [p \in Procs |-> "idle"]
    /\ call = [p \in Procs |-> NoCall]
    /\ memo = [p \in Procs |-> {}]
    /\ base = [p \in Procs |-> NotBuilt]
    /\ objs = [p \in Procs |-> <<>>]
    /\ disk = [q \in {} |-> [complete |-> FALSE, val |-> NoVal]]
    /\ weightFiles = [q \in {} |-> Pretrained]
    /\ trained = 0
    /\ computed = [q \in {} |-> 0]
    /\ calls = 0

StoreInit == StoreIdle /\ PairsIdle /\ ValuesIdle /\ DatasetsIdle

StoreStep(p) ==
    \/ \E version \in VersionOpt : get_embedding_model(p, version)
    \/ \E m \in 1..MaxModels, version \in StoreVersions : load_weights(p, m, version)
    \/ \E m \in 1..MaxModels, version \in StoreVersions, proceed \in BOOLEAN :
         save_weights(p, m, version, proceed)
    \/ \E m \in 1..MaxModels : train(p, m)
    \/ Restart(p)
    \/ \E m \in 1..MaxModels, img \in Images, dir \in CacheDirs : embed_call(p, m, img, dir)
    \/ embed_body(p)
    \/ embed_load(p)
    \/ embed_compute(p)
    \/ embed_open(p)
    \/ embed_dump(p)
    \/ embed_return(p)
    \/ \E img \in Images, dir \in CacheDirs : get_embedding_call(p, img, dir)
    \/ get_embedding_compute(p)
    \/ Finish(p)

\* Sequential use, the program's baseline: one process, one operation at a
\* time; a later run of the program is a Restart.
Next == StoreStep(1) /\ UNCHANGED <<pairVars, valueVars, datasetVars>>

Spec == StoreInit /\ [][Next]_vars

\* Parallel use: NumProcs processes share the disk and any of them may take
\* the next step.
NextPar == \E p \in Procs : StoreStep(p) /\ UNCHANGED <<pairVars, valueVars, datasetVars>>

SpecPar == StoreInit /\ [][NextPar]_vars

\* Sequential use on storage that can fail: as Spec, and the creation of the
\* file and the write into it may raise.
NextFaults ==
    \/ StoreStep(1) /\ UNCHANGED <<pairVars, valueVars, datasetVars>>
    \/ embed_open_fails(1) /\ UNCHANGED <<pairVars, valueVars, datasetVars>>
    \/ embed_dump_fails(1) /\ UNCHANGED <<pairVars, valueVars, datasetVars>>

SpecFaults == StoreInit /\ [][NextFaults]_vars

----------------------------------------------------------------------------
(* The sampling engine's specification: a list of images, one of the        *)
(* functions applied to it, and split_pairs, called and called again, on    *)
(* the pairs made.                                                          *)

PairsInit ==
    /\ StoreIdle
    /\ ValuesIdle
    /\ DatasetsIdle
    /\ images \in ImageLists \cup {TestDataset}
    /\ lastOp = NoOp
    /\ outcome = "none"
    /\ pairs = <<>>
    /\ triplets = <<>>
    /\ train_idx = <<>>
    /\ test_idx = <<>>
    /\ prev = NoSplit

NextPairs ==
    \/ \E same \in Sames, n \in Ns : make_pairs(same, n) /\ UNCHANGED <<storeVars, valueVars, datasetVars>>
    \/ make_triplets /\ UNCHANGED <<storeVars, valueVars, datasetVars>>
    \/ \E anchor \in Range(images), positive \in Range(images), negative \in Range(images) :
         NewFaceTriplet(anchor, positive, negative) /\ UNCHANGED <<storeVars, valueVars, datasetVars>>
    \/ \E fraction_test \in Fractions, random_state \in Seeds :
         split_pairs(fraction_test, random_state) /\ UNCHANGED <<storeVars, valueVars, datasetVars>>

SpecPairs == PairsInit /\ [][NextPairs]_vars

----------------------------------------------------------------------------
(* The value objects' specification: one operation on Versions or on        *)
(* FaceImages, and what is parsed back from its result.                     *)

ValuesInit == StoreIdle /\ PairsIdle /\ ValuesIdle /\ DatasetsIdle

NextValues ==
    \/ /\ ver = NoVerOp
       /\ \E self \in Versions, other \in Versions : compare(self, other)
       /\ UNCHANGED <<storeVars, pairVars, datasetVars, faces>>
    \/ /\ ver = NoVerOp
       /\ \E self \in Versions, major \in BOOLEAN, minor \in BOOLEAN :
            increment(self, major, minor)
       /\ UNCHANGED <<storeVars, pairVars, datasetVars, faces>>
    \/ /\ ver = NoVerOp
       /\ \E string \in VersionStrings : from_string(string)
       /\ UNCHANGED <<storeVars, pairVars, datasetVars, faces>>
    \/ Version__str__ /\ UNCHANGED <<storeVars, pairVars, datasetVars, faces>>
    \/ from_string(ver.text) /\ UNCHANGED <<storeVars, pairVars, datasetVars, faces>>
    \/ /\ ver = NoVerOp
       /\ \E self \in Versions, filename \in Filenames : append_to_filename(self, filename)
       /\ UNCHANGED <<storeVars, pairVars, datasetVars, faces>>
    \/ /\ ver = NoVerOp
       /\ \E filename \in Filenames : from_filename(filename)
       /\ UNCHANGED <<storeVars, pairVars, datasetVars, faces>>
    \/ from_filename(ver.text) /\ UNCHANGED <<storeVars, pairVars, datasetVars, faces>>
    \/ /\ ver = NoVerOp
       /\ \E dir_exists \in BOOLEAN, tags \in ModelDirs :
            get_latest_version(dir_exists, tags)
       /\ UNCHANGED <<storeVars, pairVars, datasetVars, faces>>
    \/ /\ ver = NoVerOp
       /\ \E self \in FaceValues, other \in FaceValues : compare_images(self, other)
       /\ UNCHANGED <<storeVars, pairVars, datasetVars, ver>>

SpecValues == ValuesInit /\ [][NextValues]_vars

----------------------------------------------------------------------------
(* The datasets' specification: datasets are constructed and their images   *)
(* read, in any order.                                                      *)

DatasetsInit == StoreIdle /\ PairsIdle /\ ValuesIdle /\ DatasetsIdle

NextDatasets ==
    \/ \E self \in DatasetValues :
         NewDataset(self) /\ UNCHANGED <<storeVars, pairVars, valueVars>>
    \/ \E d \in 1..MaxDatasets :
         images_access(d) /\ UNCHANGED <<storeVars, pairVars, valueVars>>

SpecDatasets == DatasetsInit /\ [][NextDatasets]_vars

----------------------------------------------------------------------------
(* Properties of the store.                                                 *)

Ended(p) == pc[p] \in {"done", "raised"}

\* C1: in sequential use, a get with a cache directory for a readable image
\* returns, its path has been computed exactly once however many gets were
\* made for it, and the value is the one the first get persisted.
C1_SequentialGetComputesOnce ==
    \A p \in Procs :
        (Ended(p) /\ call[p].dir # None /\ call[p].img.readable)
            => /\ pc[p] = "done"
               /\ Count(call[p].path) = 1
               /\ call[p].val = disk[call[p].path].val

\* The part of C1 the code keeps: embed, for an image that carries `source`.
EmbedComputesOnceWithSource ==
    \A p \in Procs :
        (Ended(p) /\ call[p].op = "embed" /\ call[p].dir # None
           /\ call[p].img.readable /\ call[p].img.source # NoAttr)
            => /\ pc[p] = "done"
               /\ Count(call[p].path) = 1
               /\ call[p].val = disk[call[p].path].val

\* C2: with parallel callers of embed for one key, the key's computation has
\* run exactly once when a caller receives its value.
C2_ParallelGetComputesOnce ==
    \A p \in Procs :
        (pc[p] = "done" /\ call[p].op = "embed" /\ call[p].dir # None)
            => Count(call[p].path) = 1

\* C3: a reader that finds the path present deserializes the complete
\* artifact: no load ends in the error of unpickling a partly written file.
C3_ReaderSeesCompleteArtifact ==
    \A p \in Procs : ~(pc[p] = "raised" /\ call[p].err = "EOFError")

\* C4 as stated, for both operations: a derived path names the version of
\* the weights its producer holds: the model's current_version for embed,
\* and for get_embedding, whose producer is the architecture's base model,
\* some version whenever the base model holds the weights of a saved version.
C4_PathNamesProducerVersion ==
    \A p \in Procs :
        call[p].path # NoPath =>
            IF call[p].op = "embed"
            THEN PathVersion(call[p].path) = objs[p][call[p].m].version
            ELSE (\E v \in DOMAIN weightFiles : weightFiles[v] = base[p])
                    => PathVersion(call[p].path) # NoVersion

\* C4 as amended, for embed alone: the path names the model's
\* current_version, and a value embed hands back (computed, read from disk
\* or from the cache) was stored by a model at that same version.
C4_EmbedPathNamesVersion ==
    \A p \in Procs :
        call[p].op = "embed" =>
            /\ call[p].path # NoPath
                  => PathVersion(call[p].path) = objs[p][call[p].m].version
            /\ pc[p] \in {"return", "done"}
                  => call[p].val.tag = objs[p][call[p].m].version

\* C4's case: a model at a version gets an image for which an artifact
\* stored under another canonical name is on disk, and does not receive it.
C4_Witness ==
    \E p \in Procs :
        /\ pc[p] = "done"
        /\ call[p].op = "embed"
        /\ call[p].path # NoPath
        /\ objs[p][call[p].m].version # NoVersion
        /\ \E q \in DOMAIN disk :
             /\ q # call[p].path
             /\ q[4] = call[p].path[4]
             /\ disk[q].complete

----------------------------------------------------------------------------
(* Properties of the sampling engine.                                       *)

\* The two identities of a pair, without their order.
PairIdentities(pair) == {pair.first.identity, pair.second.identity}

Split == lastOp.name = "split_pairs"

\* C5: whenever split_pairs returns, no group (the two identities of a pair,
\* in either order) has a pair in train and a pair in test.
C5_NoGroupInTrainAndTest ==
    (Split /\ outcome = "ok") =>
        \A i \in Range(train_idx), j \in Range(test_idx) :
            PairIdentities(pairs[i]) # PairIdentities(pairs[j])

\* C5's case: a split with pairs on both sides whose input holds a pair
\* (A,B) and a pair (B,A).
C5_Witness ==
    /\ Split
    /\ outcome = "ok"
    /\ train_idx # <<>>
    /\ test_idx # <<>>
    /\ \E i, j \in DOMAIN pairs :
         /\ pairs[i].first.identity # pairs[i].second.identity
         /\ pairs[i].first.identity = pairs[j].second.identity
         /\ pairs[i].second.identity = pairs[j].first.identity

\* C6: a call of split_pairs with a seed, repeated with the same pairs,
\* fraction and seed, ends as the first one did, with the same train and test.
C6_SplitDeterministic ==
    (/\ Split
     /\ prev # NoSplit
     /\ prev.pairs = pairs
     /\ prev.fraction_test = lastOp.fraction_test
     /\ prev.random_state = lastOp.random_state
     /\ lastOp.random_state # NoSeed)
        => /\ prev.outcome = outcome
           /\ prev.train_idx = train_idx
           /\ prev.test_idx = test_idx

\* The value of fraction_test lies strictly between 0 and 1.
InUnitInterval(fraction_test) ==
    0 < fraction_test.num /\ fraction_test.num < fraction_test.den

\* C7: split_pairs with a test fraction that is not strictly between 0 and
\* 1 raises and returns no partitions.
C7_InvalidFractionFails ==
    (Split /\ ~InUnitInterval(lastOp.fraction_test))
        => /\ outcome = "ValueError"
           /\ train_idx = <<>>
           /\ test_idx = <<>>

\* The part of C7 the code keeps: a float outside (0, 1) raises.
FloatOutsideUnitIntervalFails ==
    (Split /\ lastOp.fraction_test.kind = "float" /\ ~InUnitInterval(lastOp.fraction_test))
        => /\ outcome = "ValueError"
           /\ train_idx = <<>>
           /\ test_idx = <<>>

ValidTriplet(t) ==
    /\ t.anchor.identity = t.positive.identity
    /\ t.anchor.identity # t.negative.identity

\* C8: constructing a FaceTriplet succeeds exactly when anchor and positive
\* share an identity that the negative does not have; a failed construction
\* leaves no triplet, and every triplet there is satisfies both conditions.
C8_FaceTripletValid ==
    /\ lastOp.name = "FaceTriplet" =>
          LET t == FaceTriplet(lastOp.args[1], lastOp.args[2], lastOp.args[3])
          IN  /\ (outcome = "ok") <=> ValidTriplet(t)
              /\ triplets = IF ValidTriplet(t) THEN <<t>> ELSE <<>>
    /\ \A k \in DOMAIN triplets : ValidTriplet(triplets[k])

\* C8's case: a construction refused for the negative alone.
C8_Witness ==
    /\ lastOp.name = "FaceTriplet"
    /\ lastOp.args[1].identity = lastOp.args[2].identity
    /\ lastOp.args[1].identity = lastOp.args[3].identity
    /\ outcome = "ValueError"
    /\ triplets = <<>>

\* C9: make_triplets on images with fewer than 2 distinct identities raises
\* ValueError and makes no triplets.
C9_TooFewIdentitiesFails ==
    (lastOp.name = "make_triplets" /\ Cardinality(identities(images)) < 2)
        => /\ outcome = "ValueError"
           /\ triplets = <<>>

\* C9's case: make_triplets refused several images of one identity.
C9_Witness ==
    /\ lastOp.name = "make_triplets"
    /\ Len(images) >= 2
    /\ Cardinality(identities(images)) = 1
    /\ outcome = "ValueError"

\* The positions of `pairs` that hold the images x and y, in either order.
PositionsOf(x, y) ==
    { i \in DOMAIN pairs : {pairs[i].first.obj, pairs[i].second.obj} = {x.obj, y.obj} }

\* C10: make_pairs(images, same=True) with n omitted returns, for every
\* identity group of size k, k(k-1)/2 pairs of that identity, every two
\* images of a group at exactly one position, and no pair of two identities;
\* for the 11-image fixture that is 8 pairs.
C10_SamePairsPerGroup ==
    (lastOp.name = "make_pairs" /\ lastOp.same = "True" /\ lastOp.n = NoN) =>
        /\ outcome = "ok"
        /\ \A identity \in identities(images) :
             LET k == Cardinality({ i \in DOMAIN images : images[i].identity = identity })
             IN  2 * Cardinality({ i \in DOMAIN pairs :
                                     /\ pairs[i].first.identity = identity
                                     /\ pairs[i].second.identity = identity })
                    = k * (k - 1)
        /\ \A x, y \in Range(images) :
             (x.obj # y.obj /\ x.identity = y.identity)
                => Cardinality(PositionsOf(x, y)) = 1
        /\ \A i \in DOMAIN pairs :
             /\ pairs[i].first.identity = pairs[i].second.identity
             /\ pairs[i].first.obj # pairs[i].second.obj
        /\ images = TestDataset => Len(pairs) = 8

\* C10's case: the fixture paired.
C10_Witness ==
    /\ lastOp.name = "make_pairs"
    /\ lastOp.same = "True"
    /\ lastOp.n = NoN
    /\ images = TestDataset
    /\ outcome = "ok"
    /\ Len(pairs) = 8

\* The unordered pairs of images of one identity that the list holds.
IntraGroupPairs ==
    { xy \in Range(images) \X Range(images) :
        xy[1].obj < xy[2].obj /\ xy[1].identity = xy[2].identity }

SameIdentity(pair) == pair.first.identity = pair.second.identity

C12_NeverFailsForLackOfIdentities ==
    (lastOp.name = "make_pairs" /\ Cardinality(identities(images)) < 2) =>
        /\ outcome = "ok"
        /\ \A i \in DOMAIN pairs : SameIdentity(pairs[i])

\* The part of C12 the code keeps: with same=True it returns on such images.
SameTrueNeverFails ==
    (lastOp.name = "make_pairs" /\ lastOp.same = "True") =>
        /\ outcome = "ok"
        /\ \A i \in DOMAIN pairs : SameIdentity(pairs[i])

\* The number of pairs make_pairs produces before it looks at n.
Produced == IF lastOp.same = "True" THEN Cardinality(IntraGroupPairs)
            ELSE 2 * Cardinality(IntraGroupPairs)

\* C13: make_pairs with n given and same not False returns min(produced, n)
\* pairs, no positive pair twice, for every n >= 0.
C13_DownsampledToN ==
    (lastOp.name = "make_pairs" /\ lastOp.same # "False" /\ lastOp.n # NoN /\ outcome = "ok") =>
        /\ Len(pairs) = Min(Produced, lastOp.n)
        /\ \A xy \in IntraGroupPairs : Cardinality(PositionsOf(xy[1], xy[2])) <= 1

\* The part of C13 the code keeps: the same for n >= 1.
DownsampledToPositiveN ==
    (lastOp.name = "make_pairs" /\ lastOp.same # "False" /\ lastOp.n >= 1 /\ outcome = "ok") =>
        /\ Len(pairs) = Min(Produced, lastOp.n)
        /\ \A xy \in IntraGroupPairs : Cardinality(PositionsOf(xy[1], xy[2])) <= 1

----------------------------------------------------------------------------
(* Properties of the value objects.                                         *)

\* (major, minor, micro) of a comes after that of b in lexicographic order.
LexGreater(a, b) ==
    \E i \in 1..3 : a[i] > b[i] /\ \A j \in 1..(i - 1) : a[j] = b[j]

\* C14: for two Versions exactly one of <, ==, > holds; > is the
\* lexicographic order of (major, minor, micro), irreflexive and transitive;
\* == is equality of the three components; >= and <= add == to > and <.
C14_VersionOrder ==
    ver.name = "compare" =>
        LET a == ver.self
            b == ver.other
            c == ver.cmp
        IN  /\ Cardinality({ r \in {"lt", "eq", "gt"} : c[r] }) = 1
            /\ c.gt <=> LexGreater(a, b)
            /\ c.lt <=> LexGreater(b, a)
            /\ c.eq <=> (a[1] = b[1] /\ a[2] = b[2] /\ a[3] = b[3])
            /\ c.ge <=> (c.gt \/ c.eq)
            /\ c.le <=> (c.lt \/ c.eq)
            /\ (a = b) => ~c.gt
            /\ \A z \in Versions : (c.gt /\ Version_gt(b, z)) => Version_gt(a, z)

\* C14's case: a greater major decides against smaller minor and micro.
C14_Witness ==
    /\ ver.name = "compare"
    /\ ver.self[1] > ver.other[1]
    /\ ver.self[2] < ver.other[2]
    /\ ver.self[3] < ver.other[3]
    /\ ver.cmp.gt
    /\ ~ver.cmp.le

\* C15: increment() gives (a, b, c+1), increment(minor=True) (a, b+1, 0),
\* increment(major=True) (a+1, 0, 0), as a new Version beside the receiver.
C15_Increment ==
    (ver.name = "increment" /\ ~(ver.major /\ ver.minor)) =>
        /\ ver.outcome = "ok"
        /\ ver.result = IF ver.major THEN <<ver.self[1] + 1, 0, 0>>
                        ELSE IF ver.minor THEN <<ver.self[1], ver.self[2] + 1, 0>>
                        ELSE <<ver.self[1], ver.self[2], ver.self[3] + 1>>
        /\ ver.result # ver.self

\* C15's case: a minor bump of a Version whose micro is not 0.
C15_Witness ==
    /\ ver.name = "increment"
    /\ ver.minor
    /\ ~ver.major
    /\ ver.self[3] > 0
    /\ ver.result = <<ver.self[1], ver.self[2] + 1, 0>>

\* C16: increment with both flags set raises and returns no Version.
C16_IncrementBothFlagsFails ==
    (ver.name = "increment" /\ ver.major /\ ver.minor) =>
        /\ ver.outcome = "ValueError"
        /\ ver.result = NoVersion

\* C16's case: both flags set.
C16_Witness ==
    /\ ver.name = "increment"
    /\ ver.major
    /\ ver.minor
    /\ ver.outcome = "ValueError"

\* C17: the canonical string of a parsed Version parses, to the Version it
\* was printed from.
C17_StringRoundTrip ==
    (ver.name = "from_string" /\ ver.first # NoVersion) =>
        /\ ver.string = ver.text
        /\ ver.outcome = "ok"
        /\ ver.result = ver.first

\* C17's case: a string with a missing group and a leading zero, parsed,
\* printed to another string and parsed again.
C17_Witness ==
    /\ ver.name = "from_string"
    /\ ver.first # NoVersion
    /\ Len(SplitAt(ver.origin, ".")) = 2
    /\ ver.origin[1] = "0"
    /\ ver.first[1] > 0
    /\ ver.text # ver.origin
    /\ ver.result = ver.first

\* C18: a Version appended to a filename that has an extension and no
\* version-like suffix is what from_filename deduces from the result.
C18_FilenameRoundTrip ==
    (ver.name = "from_filename" /\ ver.self # NoVersion /\ ver.filename \in PlainFilenames) =>
        /\ ver.outcome = "ok"
        /\ ver.result = ver.self

\* The part of C18 the code keeps: the same for a major of one digit.
SingleDigitMajorRoundTrip ==
    (/\ ver.name = "from_filename"
     /\ ver.self # NoVersion
     /\ ver.filename \in PlainFilenames
     /\ ver.self[1] < 10) =>
        /\ ver.outcome = "ok"
        /\ ver.result = ver.self

\* C19: two FaceImages of one class are equal exactly when their paths are
\* equal, and equal ones have the same hash.
C19_EqAndHashByPath ==
    (faces.name = "compare_images" /\ faces.self.class = faces.other.class) =>
        /\ faces.eq <=> (faces.self.path = faces.other.path)
        /\ faces.eq => (faces.hash_self = faces.hash_other)

\* The part of C19 the code keeps: equality is decided by the path whenever
\* `other` is an instance of the class of `self`.
EqByPathForInstances ==
    (faces.name = "compare_images" /\ IsInstance(faces.other, faces.self.class)) =>
        (faces.eq <=> (faces.self.path = faces.other.path))

----------------------------------------------------------------------------
(* Properties of the datasets.                                              *)

\* The runs of the images body made by the instances that are datasets[d]'s
\* class with datasets[d]'s parameters.
RECURSIVE ComputedUpTo(_, _)
ComputedUpTo(d, k) ==
    IF k = 0 THEN 0
    ELSE ComputedUpTo(d, k - 1)
           + (IF datasets[k] = datasets[d] THEN dcomputed[k] ELSE 0)
ComputedFor(d) == ComputedUpTo(d, Len(datasets))

\* C20: for every Dataset instance the images collection is computed once
\* and every access returns that same list for the lifetime of the instance,
\* also when the list is drawn at random (ForenFaceDataset with
\* max_num_images) and also when another instance of the same variant with
\* other parameters was accessed before: the list an access returns is the
\* one the instance got first, and the body ran exactly once for a dataset
\* of its class and parameters.
C20_ImagesComputedOnceAndStable ==
    access.d # 0 =>
        /\ access.val = dfirst[access.d][1]
        /\ ComputedFor(access.d) = 1
        /\ access.val \in images_results(datasets[access.d])

\* What the code keeps: whatever list an instance got first, every later
\* access of that instance returns it, and no instance runs the body twice.
ImagesStablePerInstance ==
    /\ access.d # 0 => access.val = dfirst[access.d][1]
    /\ \A d \in DOMAIN datasets : dcomputed[d] <= 1

\* What the code keeps: a dataset whose variant puts its parameters in its
\* __str__ (EnfsiDataset), or has none (TestDataset), gets a list computed
\* once for its own parameters.
ImagesOfOwnParameters ==
    (access.d # 0 /\ datasets[access.d].class # "ForenFaceDataset") =>
        /\ ComputedFor(access.d) = 1
        /\ access.val \in images_results(datasets[access.d])

\* C21: on a model directory of version-tagged weight files,
\* get_latest_version returns the maximum of the versions present under the
\* Version order, whatever the versions are; it fails only when the
\* directory is missing or holds no weight files.
C21_LatestVersionIsMaximum ==
    ver.name = "get_latest_version" =>
        IF ver.dir_exists /\ ver.tags # <<>>
        THEN /\ ver.outcome = "ok"
             /\ \E k \in DOMAIN ver.tags : ver.tags[k] = ver.result
             /\ \A k \in DOMAIN ver.tags : LexGreater(ver.result, ver.tags[k])
                                             \/ ver.result = ver.tags[k]
        ELSE ver.outcome = "ValueError"

\* What the code keeps: the same, when every version in the directory has a
\* major component of one digit.
LatestOfSingleDigitMajors ==
    (ver.name = "get_latest_version" /\ \A k \in DOMAIN ver.tags : ver.tags[k][1] < 10) =>
        IF ver.dir_exists /\ ver.tags # <<>>
        THEN /\ ver.outcome = "ok"
             /\ \E k \in DOMAIN ver.tags : ver.tags[k] = ver.result
             /\ \A k \in DOMAIN ver.tags : LexGreater(ver.result, ver.tags[k])
                                             \/ ver.result = ver.tags[k]
        ELSE ver.outcome = "ValueError"

----------------------------------------------------------------------------
(* More properties of the store.                                            *)

\* C22: in sequential use, once an entry is on disk for a key (the file at
\* the key's path is completely written), no step of a later get writes the
\* file or runs the producer for that path: the entry stays as the first
\* computation wrote it.
C22_EntryWrittenOnce ==
    [][ \A q \in DOMAIN disk :
          disk[q].complete =>
             /\ q \in DOMAIN disk'
             /\ disk'[q] = disk[q]
             /\ computed'[q] = computed[q] ]_vars

\* C22's case: a get in a later run of the program found the entry on disk
\* and returned it, and the path has been computed once.
C22_Witness ==
    /\ pc[1] = "done"
    /\ call[1].op = "embed"
    /\ call[1].from = "disk"
    /\ call[1].val = disk[call[1].path].val
    /\ Count(call[1].path) = 1

\* The Version in a canonical name '<name>_<version>' (NoVersion: bare name).
NameVersion(name) == IF Len(name) = 3 THEN name[3] ELSE NoVersion

\* An embedding computed with the weights of a saved version was computed
\* with those of `version`.  (Weights that no file holds are those of a
\* model trained further and not saved; train is not one of the operations
\* the claim is about.)
ComputedWithWeightsOf(val, version) ==
    (\E v \in DOMAIN weightFiles : weightFiles[v] = val.weights)
        => /\ version \in DOMAIN weightFiles
           /\ val.weights = weightFiles[version]

\* C27: after any sequence of get_embedding_model, load_weights,
\* save_weights and embed on the embedding models of one architecture,
\* every artifact persisted under a path that names '<name>_<version>', and
\* every artifact memoized under a model of that name, was computed with
\* the weights of that version.
C27_ArtifactsHaveWeightsOfTheirVersion ==
    /\ \A q \in DOMAIN disk :
         (disk[q].complete /\ PathVersion(q) # NoVersion)
            => ComputedWithWeightsOf(disk[q].val, PathVersion(q))
    /\ \A p \in Procs : \A e \in memo[p] :
         (e.op = "embed" /\ NameVersion(e.hash[1]) # NoVersion)
            => ComputedWithWeightsOf(e.val, NameVersion(e.hash[1]))

\* What the code keeps: the version in the path of a persisted artifact is
\* the current_version of the model that computed it.
ArtifactsNamedAfterCurrentVersion ==
    \A q \in DOMAIN disk :
        disk[q].complete => disk[q].val.tag = PathVersion(q)

\* A step leaves every completely written file as it is.
CompleteEntriesKept ==
    \A q \in DOMAIN disk :
        disk[q].complete => (q \in DOMAIN disk' /\ disk'[q] = disk[q])

\* C23: a get that fails (on the source image or while persisting) hands the
\* error to the caller and leaves the store valid: the entries persisted for
\* other keys are unchanged, and no file is left at the failing key's path
\* that a later get loads as if it were a complete artifact, that is, no get
\* comes to load a file that is not completely written.
C23_FailedGetLeavesStoreValid ==
    /\ [](\A p \in Procs : pc[p] = "load" => disk[call[p].path].complete)
    /\ [][CompleteEntriesKept]_vars

\* What the code keeps: the entries of other keys stay as they are, under
\* failures as well.
FailedGetKeepsOtherEntries == [][CompleteEntriesKept]_vars

\* What the code keeps: a get that fails on its source image (unreadable,
\* or without the attribute embed reads) leaves no file at its path.
SourceFailureLeavesNoFile ==
    \A p \in Procs :
        (pc[p] = "raised" /\ call[p].err \in {"ValueError", "AttributeError"}
           /\ call[p].path # NoPath /\ call[p].path \in DOMAIN disk)
            => disk[call[p].path].complete

----------------------------------------------------------------------------
(* More properties of the sampling engine.                                  *)

\* The positions of `triplets` whose anchor is x and whose positive is y.
TripletsOf(x, y) ==
    { k \in DOMAIN triplets : triplets[k].anchor = x /\ triplets[k].positive = y }

\* C24: make_triplets on images with at least 2 distinct identities returns,
\* without failing in the construction of a triplet, exactly one triplet for
\* every two images of one identity, the earlier of the two in the input as
\* anchor, with a negative of another identity.
C24_OneTripletPerIntraPair ==
    (lastOp.name = "make_triplets" /\ Cardinality(identities(images)) >= 2) =>
        /\ outcome = "ok"
        /\ Len(triplets) = Cardinality(IntraGroupPairs)
        /\ \A xy \in IntraGroupPairs : Cardinality(TripletsOf(xy[1], xy[2])) = 1
        /\ \A k \in DOMAIN triplets :
             /\ triplets[k].anchor.obj < triplets[k].positive.obj
             /\ ValidTriplet(triplets[k])
             /\ triplets[k].negative \in Range(images)

\* C24's case: a group of three images and an image of another identity
\* give three triplets.
C24_Witness ==
    /\ lastOp.name = "make_triplets"
    /\ outcome = "ok"
    /\ Len(triplets) = 3
    /\ Cardinality(identities(images)) = 2

\* The positions of `pairs` that hold x first and y second.
OrderedPositionsOf(x, y) ==
    { i \in DOMAIN pairs : pairs[i].first = x /\ pairs[i].second = y }

\* The pairs (x, y) of images of two identities, in both orders.
CrossGroupPairs ==
    { xy \in Range(images) \X Range(images) : xy[1].identity # xy[2].identity }

\* C25: make_pairs(images, same=False) with n omitted returns the full
\* cross-product of the identity groups: every pair returned has two
\* identities, and every two images x, y of two identities are paired once
\* as (x, y), for x's group against y's, and once as (y, x), for y's group
\* against x's; nothing else is returned.
C25_FullCrossProduct ==
    (lastOp.name = "make_pairs" /\ lastOp.same = "False" /\ lastOp.n = NoN) =>
        /\ outcome = "ok"
        /\ \A i \in DOMAIN pairs : ~SameIdentity(pairs[i])
        /\ \A xy \in CrossGroupPairs : Cardinality(OrderedPositionsOf(xy[1], xy[2])) = 1
        /\ Len(pairs) = Cardinality(CrossGroupPairs)

\* C25's case: groups of two images each, paired in both directions.
C25_Witness ==
    /\ lastOp.name = "make_pairs"
    /\ lastOp.same = "False"
    /\ lastOp.n = NoN
    /\ outcome = "ok"
    /\ Len(images) = 4
    /\ Cardinality(identities(images)) = 2
    /\ Len(pairs) = 8

\* C26: make_pairs(images, same=False, n) with n given, on images of at
\* least 2 identities, returns exactly n pairs, each of two images of the
\* input with two distinct identities; a pair may occur more than once.
C26_RandomNegativePairs ==
    (/\ lastOp.name = "make_pairs"
     /\ lastOp.same = "False"
     /\ lastOp.n # NoN
     /\ Cardinality(identities(images)) >= 2) =>
        /\ outcome = "ok"
        /\ Len(pairs) = lastOp.n
        /\ \A i \in DOMAIN pairs :
             /\ ~SameIdentity(pairs[i])
             /\ pairs[i].first \in Range(images)
             /\ pairs[i].second \in Range(images)

\* C26's case: n = 2 and the same pair drawn twice.
C26_Witness ==
    /\ lastOp.name = "make_pairs"
    /\ lastOp.same = "False"
    /\ lastOp.n = 2
    /\ outcome = "ok"
    /\ Len(pairs) = 2
    /\ pairs[1] = pairs[2]

\* C28: when split_pairs returns, train and test partition the input by
\* position: every position of the input is in exactly one of them, once,
\* neither holds anything else, and their lengths add up to the input's.
C28_SplitPartitionsInput ==
    (Split /\ outcome = "ok") =>
        /\ Range(train_idx) \cup Range(test_idx) = DOMAIN pairs
        /\ Range(train_idx) \cap Range(test_idx) = {}
        /\ Len(train_idx) + Len(test_idx) = Len(pairs)

\* C28's case: a split of several pairs of one group and a pair of another.
C28_Witness ==
    /\ Split
    /\ outcome = "ok"
    /\ Len(pairs) >= 3
    /\ Len(train_idx) >= 2
    /\ test_idx # <<>>

=============================================================================
